---- MODULE Spec2Model ----
(***************************************************************************)
(* Model of the IRC message framer of velour/irc (src/irc/msg.go).         *)
(*                                                                         *)
(* The byte source handed to readMsgData is a finite sequence of items.    *)
(* An item in 0..255 is a byte the source delivers; a negative item is a   *)
(* failure of the source at that point (ReadByte returns a non-EOF error   *)
(* and the next ReadByte goes on with the following item, as a             *)
(* bufio.Reader does over a reader whose Read fails once, e.g. on a        *)
(* deadline).  After the last item every ReadByte returns io.EOF.          *)
(* Strings and byte slices are sequences of bytes.                         *)
(***************************************************************************)
EXTENDS Integers, Sequences, FiniteSets, TLC

VARIABLES
    stream,   \* the items the byte source delivers, in order
    pos,      \* number of items the reader has consumed so far
    calls,    \* one record per finished readMsgData call, in call order
    text,     \* the string handed to Parse
    message,  \* the Message parsed from text, or built by the caller
    wire,     \* what RawString returned for message: string and error
    reparsed, \* the Message parsed from the string RawString returned
    phase     \* what the caller of the codec has done so far

vars == <<stream, pos, calls, text, message, wire, reparsed, phase>>

codecVars == <<text, message, wire, reparsed, phase>>

readerVars == <<stream, pos, calls>>

----------------------------------------------------------------------------
(* Constants of the program *)

MaxBytes == 512

delimiter == <<13, 10>>

NUL == 0
LF == 10
CR == 13

----------------------------------------------------------------------------
(* Bounds of the model *)

MaxPieces == 4

\* the longest short string handed to Parse
MaxChars == 5

\* the most arguments of a Message built by the caller
MaxArgs == 2

----------------------------------------------------------------------------
(* Error values *)

nil == [kind |-> "nil"]

EOF == [kind |-> "EOF"]

unexpected(what) == [kind |-> "unexpected", what |-> what]

MsgTooLong(Message, NTrunc) ==
    [kind |-> "MsgTooLong", Message |-> Message, NTrunc |-> NTrunc]

\* the error a failing source hands to ReadByte, identified by the item
SourceErr(item) == [kind |-> "source", code |-> item]

----------------------------------------------------------------------------
(* The byte source *)

\* in.ReadByte(): the byte and a nil error, or an error; pos is the offset
\* of the reader after the call.
ReadByte(s, p) ==
    IF p >= Len(s) THEN [c |-> 0, err |-> EOF, pos |-> p]
    ELSE IF s[p + 1] < 0
         THEN [c |-> 0, err |-> SourceErr(s[p + 1]), pos |-> p + 1]
         ELSE [c |-> s[p + 1], err |-> nil, pos |-> p + 1]

----------------------------------------------------------------------------
(* readMsgData and junk *)

(* A call of readMsgData is run one ReadByte at a time.  The record st of  *)
(* a running call holds the position of the call in the code and its       *)
(* locals:                                                                 *)
(*   pc    "main": at the ReadByte of the switch (line 354);               *)
(*         "cr":   at the ReadByte that follows a '\r' (line 368);         *)
(*         "junk": at the ReadByte of junk's loop (line 399);              *)
(*         "done": returned;                                               *)
(*   pos   the offset of the reader;                                       *)
(*   msg   the local msg of readMsgData;                                   *)
(*   last, n   the locals of junk;                                         *)
(*   at    the index in the stream of the item the last ReadByte of the    *)
(*         switch examined (Len(s)+1 when it met the end of the source);   *)
(*   ret   the return, once pc = "done".                                   *)

\* case err == io.EOF && len(msg) > 0
eofMidMsgMut(err, msg) == FALSE
eofMidMsgAlways(err, msg) == err = EOF
eofMidMsg(err, msg) == err = EOF /\ Len(msg) > 0

\* case c == '\000'
isNullMut(c) == FALSE
isNull(c) == c = NUL

\* case c == '\n'
isNewlineMut(c) == FALSE
isNewline(c) == c = LF

\* if c != '\n' (the byte read after a '\r')
notNewlineMut(c) == FALSE
notNewline(c) == c # LF

\* if len(msg) == 0 { continue }
emptyFrameMut(msg) == FALSE
emptyFrame(msg) == Len(msg) = 0

\* case len(msg) >= MaxBytes-len(delimiter)
tooLongMut(msg) == Len(msg) > MaxBytes - Len(delimiter)
tooLong(msg) == Len(msg) >= MaxBytes - Len(delimiter)

\* msg = append(msg, c)
appendByteMut(msg, c) == <<c>> \o msg
appendByte(msg, c) == Append(msg, c)

\* A return of readMsgData.  data and err are the values returned.  The
\* other fields record the call at its return: pos, the reader's offset;
\* msg, the bytes accumulated; line, the source line of the return
\* statement; at, as above; rerr, the error of the last ReadByte the call
\* made (in the switch, after a '\r', or inside junk).
Return(st, data, err, p, line, rerr) ==
    [st EXCEPT !.pc = "done", !.pos = p,
               !.ret = [data |-> data, err |-> err, pos |-> p,
                        msg |-> st.msg, line |-> line, at |-> st.at,
                        rerr |-> rerr]]

\* var msg []byte, at the first ReadByte of the loop
enter(p) ==
    [pc |-> "main", pos |-> p, msg |-> <<>>, last |-> 0, n |-> 0, at |-> p,
     ret |-> <<>>]

\* one iteration of the switch of readMsgData, from its ReadByte up to the
\* next ReadByte or the return
stepMain(s, st0) ==
    LET r == ReadByte(s, st0.pos)
        st == [st0 EXCEPT !.at = st0.pos + 1]
    IN
    IF eofMidMsg(r.err, st.msg)
    THEN Return(st, <<>>, unexpected("end of file"), r.pos, 356, r.err)
    ELSE IF r.err # nil
    THEN Return(st, <<>>, r.err, r.pos, 359, r.err)
    ELSE IF isNull(r.c)
    THEN Return(st, <<>>, unexpected("null"), r.pos, 362, nil)
    ELSE IF isNewline(r.c)
    THEN [st EXCEPT !.pos = r.pos]
    ELSE IF r.c = CR
    THEN [st EXCEPT !.pc = "cr", !.pos = r.pos]
    ELSE IF tooLong(st.msg)
    THEN [st EXCEPT !.pc = "junk", !.pos = r.pos, !.last = 0, !.n = 0]
    ELSE [st EXCEPT !.pos = r.pos, !.msg = appendByte(st.msg, r.c)]

\* case c == '\r': the second ReadByte and what follows it
stepCR(s, st) ==
    LET r == ReadByte(s, st.pos) IN
    IF r.err # nil
    THEN Return(st, <<>>,
                IF r.err = EOF THEN unexpected("end of file") ELSE r.err,
                r.pos, 373, r.err)
    ELSE IF notNewline(r.c)
    THEN Return(st, <<>>, unexpected("carrage return"), r.pos, 376, nil)
    ELSE IF emptyFrame(st.msg)
    THEN [st EXCEPT !.pc = "main", !.pos = r.pos]
    ELSE Return(st, st.msg, nil, r.pos, 381, nil)

\* the return of the case len(msg) >= MaxBytes-len(delimiter), once junk
\* has returned (n, err): err is dropped
tooLongReturn(st, n, err, p) ==
    Return(st, <<>>,
           MsgTooLong(SubSeq(st.msg, 1, Len(st.msg) - 1), n + 1),
           p, 385, err)

\* one iteration of the loop of junk; when junk returns, readMsgData
\* returns too
stepJunk(s, st) ==
    LET r == ReadByte(s, st.pos) IN
    IF r.err # nil
    THEN tooLongReturn(st, st.n, r.err, r.pos)
    ELSE IF st.last = delimiter[1] /\ r.c = delimiter[2]
    THEN tooLongReturn(st, (st.n + 1) - 1, nil, r.pos)
    ELSE [st EXCEPT !.pos = r.pos, !.n = st.n + 1, !.last = r.c]

step(s, st) ==
    IF st.pc = "main" THEN stepMain(s, st)
    ELSE IF st.pc = "cr" THEN stepCR(s, st)
    ELSE IF st.pc = "junk" THEN stepJunk(s, st)
    ELSE st

\* k steps of a call, or as many as it takes to return.  The steps are
\* composed by halves so that the evaluation nests only log(k) deep.
RECURSIVE run(_, _, _)
run(s, st, k) ==
    IF st.pc = "done" \/ k = 0 THEN st
    ELSE IF k = 1 THEN step(s, st)
    ELSE LET half == run(s, st, k \div 2) IN run(s, half, k - (k \div 2))

\* A call of readMsgData with the reader at offset p.  Every step but the
\* last consumes one item, so the call returns within Len(s) - p + 1 steps.
readMsgData(s, p) == run(s, enter(p), (Len(s) - p) + 1).ret

----------------------------------------------------------------------------
(* Strings *)

Range(f) == { f[i] : i \in DOMAIN f }

Min(S) == CHOOSE x \in S : \A y \in S : x <= y

Max(S) == CHOOSE x \in S : \A y \in S : x >= y

\* the strings the codec looks for
Colon == <<58>>
Space == <<32>>
Bang == <<33>>
At == <<64>>
Newline == <<10>>

\* strings.Index, counted from 1: where d first occurs in s, or 0
Index(s, d) ==
    LET I == { i \in 1..((Len(s) - Len(d)) + 1) :
                 SubSeq(s, i, (i + Len(d)) - 1) = d }
    IN IF I = {} THEN 0 ELSE Min(I)

\* strings.SplitN(s, d, 2), for a non-empty d
SplitN2(s, d) ==
    LET i == Index(s, d) IN
    IF i = 0 THEN <<s>>
    ELSE <<SubSeq(s, 1, i - 1), SubSeq(s, i + Len(d), Len(s))>>

\* strings.Join
RECURSIVE Join(_, _)
Join(parts, d) ==
    IF Len(parts) = 0 THEN <<>>
    ELSE IF Len(parts) = 1 THEN parts[1]
    ELSE parts[1] \o d \o Join(Tail(parts), d)

\* strings.TrimLeft: s without its leading bytes that are in cutset
TrimLeft(s, cutset) ==
    LET K == { i \in 1..Len(s) : s[i] \notin Range(cutset) } IN
    IF K = {} THEN <<>> ELSE SubSeq(s, Min(K), Len(s))

\* strings.TrimRight: s without its trailing bytes that are in cutset
TrimRight(s, cutset) ==
    LET K == { i \in 1..Len(s) : s[i] \notin Range(cutset) } IN
    IF K = {} THEN <<>> ELSE SubSeq(s, 1, Max(K))

----------------------------------------------------------------------------
(* Message, RawString *)

\* the zero Message
ZeroMessage ==
    [Raw |-> <<>>, Origin |-> <<>>, User |-> <<>>, Host |-> <<>>,
     Command |-> <<>>, Arguments |-> <<>>]

\* if m.Raw != ""
useRawMut(m) == FALSE
useRaw(m) == m.Raw # <<>>

\* if m.Origin != "" { ... }: the prefix and the space after it
prefixTextMut(m) ==
    IF m.Origin # <<>>
    THEN Colon \o m.Origin \o Bang \o m.User \o At \o m.Host \o Space
    ELSE <<>>
prefixText(m) ==
    IF m.Origin # <<>>
    THEN Colon \o m.Origin
         \o (IF m.User # <<>> THEN Bang \o m.User \o At \o m.Host ELSE <<>>)
         \o Space
    ELSE <<>>

\* if i == len(m.Arguments)-1, with i counted from 1
isLastMut(i, args) == FALSE
isLast(i, args) == i = Len(args)

\* for i, a := range m.Arguments { ... }, from the i-th argument on
RECURSIVE argumentsText(_, _)
argumentsText(args, i) ==
    IF i > Len(args) THEN <<>>
    ELSE (IF isLast(i, args)
          THEN Space \o Colon \o args[i]
          ELSE Space \o args[i])
         \o argumentsText(args, i + 1)

\* raw at the label out
candidate(m) ==
    IF useRaw(m) THEN m.Raw
    ELSE prefixText(m) \o m.Command \o argumentsText(m.Arguments, 1)

\* if len(raw) > MaxBytes-len(delimiter)
overBoundMut(raw) == Len(raw) > MaxBytes
overBound(raw) == Len(raw) > MaxBytes - Len(delimiter)

\* Message.RawString: the string and the error returned
RawString(m) ==
    LET raw == candidate(m) IN
    IF overBound(raw)
    THEN [s |-> <<>>,
          err |-> MsgTooLong(raw, Len(raw) - (MaxBytes - Len(delimiter)))]
    ELSE [s |-> TrimRight(raw, Newline), err |-> nil]

----------------------------------------------------------------------------
(* Parse *)

\* splitString: <<head, cons>>
splitStringMut(s, delim) ==
    LET parts == SplitN2(s, delim) IN <<parts[1], Join(Tail(parts), delim)>>
splitString(s, delim) ==
    LET parts == SplitN2(s, delim)
        head == parts[1]
        cons == Join(Tail(parts), delim)
    IN <<head, IF delim = Space THEN TrimLeft(cons, delim) ELSE cons>>

\* if data[0] == ':'
startsWithColon(data) == data[1] = Colon[1]

\* if data[0] == ':' { ... }: the fields of the prefix and the data left
parsePrefixMut(data) ==
    IF startsWithColon(data)
    THEN LET a == splitString(Tail(data), Space)
             b == splitString(a[1], At)
             c == splitString(b[2], Bang)
         IN [Origin |-> b[1], User |-> c[1], Host |-> c[2], data |-> a[2]]
    ELSE [Origin |-> <<>>, User |-> <<>>, Host |-> <<>>, data |-> data]
parsePrefix(data) ==
    IF startsWithColon(data)
    THEN LET a == splitString(Tail(data), Space)
             b == splitString(a[1], Bang)
             c == splitString(b[2], At)
         IN [Origin |-> b[1], User |-> c[1], Host |-> c[2], data |-> a[2]]
    ELSE [Origin |-> <<>>, User |-> <<>>, Host |-> <<>>, data |-> data]

\* arg, data = data[1:], ""
trailingArgMut(data) == splitString(Tail(data), Space)[1]
trailingArg(data) == Tail(data)

\* for len(data) > 0 { ... }: the arguments, args being those appended so
\* far; trailing records whether the loop ended in the branch of the ':'
RECURSIVE parseArguments(_, _)
parseArguments(data, args) ==
    IF Len(data) > 0
    THEN IF startsWithColon(data)
         THEN [Arguments |-> Append(args, trailingArg(data)),
               trailing |-> TRUE]
         ELSE LET s == splitString(data, Space) IN
              parseArguments(s[2], Append(args, s[1]))
    ELSE [Arguments |-> args, trailing |-> FALSE]

\* Parse, for a non-empty data
Parse(data) ==
    LET p == parsePrefix(data)
        c == splitString(p.data, Space)
    IN [Raw |-> data, Origin |-> p.Origin, User |-> p.User, Host |-> p.Host,
        Command |-> c[1],
        Arguments |-> parseArguments(c[2], <<>>).Arguments]

\* whether Parse(data) took its last argument from the branch of the ':'
ParseTrailing(data) ==
    parseArguments(splitString(parsePrefix(data).data, Space)[2],
                   <<>>).trailing

----------------------------------------------------------------------------
(* The streams the model reads *)

\* n bytes of filler, as the tests build them
Fill(n) == [i \in 1..n |-> 97]

\* a run of filler as long as the longest message
Filler == Fill(MaxBytes - Len(delimiter))

\* the pieces a stream is made of: single bytes, the delimiter, a failure
\* of the source (a negative item), and the run of filler
Pieces ==
    { <<97>>, <<98>>, <<CR>>, <<LF>>, delimiter, <<NUL>>, <<-1>>, Filler }

\* up to MaxPieces pieces, with at most one run of filler, which is the
\* first or the second piece
PieceSeqs ==
    { ps \in UNION { [1..n -> Pieces] : n \in 0..MaxPieces } :
        \A i \in DOMAIN ps :
            ps[i] = Filler =>
                i <= 2 /\ \A j \in DOMAIN ps : ps[j] = Filler => j = i }

RECURSIVE Concat(_)
Concat(ps) == IF ps = <<>> THEN <<>> ELSE Head(ps) \o Concat(Tail(ps))

Streams == { Concat(ps) : ps \in PieceSeqs }

----------------------------------------------------------------------------
(* The state machine *)

\* RawString not called yet
NoWire == [s |-> <<>>, err |-> nil]

\* the codec is not used
CodecIdle ==
    /\ text = <<>>
    /\ message = ZeroMessage
    /\ wire = NoWire
    /\ reparsed = ZeroMessage
    /\ phase = "idle"

Init ==
    /\ stream \in Streams
    /\ pos = 0
    /\ calls = <<>>
    /\ CodecIdle

\* the caller reads until a call returns io.EOF
AtEOF == calls # <<>> /\ calls[Len(calls)].err = EOF

\* one call of readMsgData on the reader
ReadMsgData ==
    /\ ~AtEOF
    /\ LET r == readMsgData(stream, pos) IN
       /\ pos' = r.pos
       /\ calls' = Append(calls, [start |-> pos] @@ r)
    /\ UNCHANGED stream
    /\ UNCHANGED codecVars

Next == ReadMsgData

Spec == Init /\ [][Next]_vars

----------------------------------------------------------------------------
(* The codec on its own: Parse and RawString called by a caller *)

\* the bytes of the short strings: 'a', ' ', ':', '!', '@', '\n'
Chars == { 97 } \cup Range(Space \o Colon \o Bang \o At \o Newline)

\* the strings of at most n bytes
Strings(n) == UNION { [1..k -> Chars] : k \in 0..n }

\* prefixes as in ":e!foo@bar.com", with the markers in several orders
Prefixes ==
    LET e == <<101>>  f == <<102>>  b == <<98>> IN
    { Colon \o e \o Bang \o f \o At \o b,
      Colon \o e \o Bang \o f,
      Colon \o e \o At \o b,
      Colon \o e \o At \o b \o Bang \o f,
      Colon \o e \o Bang \o f \o At \o b \o At \o b \o Bang \o f }

\* the strings handed to Parse: every short string but the empty one, the
\* prefixes followed by a short string, and the longest message with
\* nothing or one more byte after it
Texts ==
    (Strings(MaxChars) \ { <<>> })
    \cup { p \o r : p \in Prefixes, r \in Strings(MaxChars - 1) }
    \cup { Filler \o x : x \in Strings(1) }

\* the values of the fields of the Messages the caller builds
Origins == { <<>>, <<97>>, <<97>> \o Bang }
Users == { <<>>, <<98>> , <<98>> \o At }
Hosts == { <<>>, <<99>> }
Commands == { <<>>, <<74>>, Colon \o <<74>>, <<74>> \o Newline }
ArgValues ==
    { <<>>, <<97>>, Colon \o <<97>>, <<97>> \o Space \o <<98>>,
      <<97>> \o Newline, Filler }
Raws == { <<>>, <<114>>, <<114>> \o Newline }

Messages ==
    [Raw : Raws, Origin : Origins, User : Users, Host : Hosts,
     Command : Commands,
     Arguments : UNION { [1..n -> ArgValues] : n \in 0..MaxArgs }]

InitCodec ==
    /\ stream = <<>>
    /\ pos = 0
    /\ calls = <<>>
    /\ wire = NoWire
    /\ reparsed = ZeroMessage
    /\ \/ phase = "text" /\ text \in Texts /\ message = ZeroMessage
       \/ phase = "built" /\ text = <<>> /\ message \in Messages

\* m, err := Parse(text)
ParseText ==
    /\ phase = "text"
    /\ message' = Parse(text)
    /\ phase' = "parsed"
    /\ UNCHANGED <<text, wire, reparsed>>
    /\ UNCHANGED readerVars

\* s, err := message.RawString()
Serialize ==
    /\ phase \in {"parsed", "built"}
    /\ wire' = RawString(message)
    /\ phase' = IF phase = "parsed" THEN "echoed" ELSE "wired"
    /\ UNCHANGED <<text, message, reparsed>>
    /\ UNCHANGED readerVars

\* Parse of the string RawString returned for a Message the caller built
Reparse ==
    /\ phase = "wired"
    /\ wire.err = nil
    /\ wire.s # <<>>
    /\ reparsed' = Parse(wire.s)
    /\ phase' = "reparsed"
    /\ UNCHANGED <<text, message, wire>>
    /\ UNCHANGED readerVars

NextCodec == ParseText \/ Serialize \/ Reparse

SpecCodec == InitCodec /\ [][NextCodec]_vars

----------------------------------------------------------------------------
(* read: readMsgData followed by Parse *)

\* A call of Parse by read.  Parse looks at data[0] without testing the
\* length of data, so the call panics on an empty data.
ParseCall(data) ==
    IF data = <<>>
    THEN [called |-> TRUE, data |-> data, panic |-> TRUE, m |-> ZeroMessage]
    ELSE [called |-> TRUE, data |-> data, panic |-> FALSE, m |-> Parse(data)]

\* no call of Parse
NoParseCall ==
    [called |-> FALSE, data |-> <<>>, panic |-> FALSE, m |-> ZeroMessage]

\* if long, ok := err.(MsgTooLong); ok
isTooLongMut(err) == FALSE
isTooLong(err) == err.kind = "MsgTooLong"

\* return m, long
withLongMut(long) == nil
withLong(long) == long

\* read with the reader at offset p: the return of readMsgData, to which
\* are added the Message and the error read returns (m, ret) and its call
\* of Parse (parse)
read(s, p) ==
    LET r == readMsgData(s, p) IN
    IF r.err # nil
    THEN IF isTooLong(r.err)
         THEN LET q == ParseCall(r.err.Message) IN
              r @@ [m |-> q.m, ret |-> withLong(r.err), parse |-> q]
         ELSE r @@ [m |-> ZeroMessage, ret |-> r.err, parse |-> NoParseCall]
    ELSE LET q == ParseCall(r.data) IN
         r @@ [m |-> q.m, ret |-> nil, parse |-> q]

\* the pieces of the streams of messages: as Pieces, with the markers of
\* the message grammar among the bytes
MessagePieces ==
    { <<97>>, Colon, Space, <<CR>>, <<LF>>, delimiter, <<NUL>>, <<-1>>,
      Filler }

MessagePieceSeqs ==
    { ps \in UNION { [1..n -> MessagePieces] : n \in 0..MaxPieces } :
        \A i \in DOMAIN ps :
            ps[i] = Filler =>
                i <= 2 /\ \A j \in DOMAIN ps : ps[j] = Filler => j = i }

MessageStreams == { Concat(ps) : ps \in MessagePieceSeqs }

InitRead ==
    /\ stream \in MessageStreams
    /\ pos = 0
    /\ calls = <<>>
    /\ CodecIdle

\* a call of Parse made by read has panicked
Panicked == calls # <<>> /\ calls[Len(calls)].parse.panic

\* one call of read on the reader
Read ==
    /\ ~AtEOF
    /\ ~Panicked
    /\ LET r == read(stream, pos) IN
       /\ pos' = r.pos
       /\ calls' = Append(calls, [start |-> pos] @@ r)
    /\ UNCHANGED stream
    /\ UNCHANGED codecVars

NextRead == Read

SpecRead == InitRead /\ [][NextRead]_vars

----------------------------------------------------------------------------
(* Vocabulary of the properties *)

Calls == 1..Len(calls)

\* the longest text a message may have
MaxText == MaxBytes - Len(delimiter)

\* a byte that readMsgData accumulates
IsContent(x) == x >= 0 /\ x \notin {NUL, LF, CR}

\* the stream without its i-th item
RemoveAt(s, i) == SubSeq(s, 1, i - 1) \o SubSeq(s, i + 1, Len(s))

\* The items a call examined with the ReadByte of its switch, its last one
\* included, lie between start+1 and at; the only items in that range read
\* by the ReadByte that follows a '\r' are the '\n' of skipped empty frames.
Scanned(c) ==
    { i \in (c.start + 1)..c.at : i <= Len(stream) }

\* the call returned from the length guard: the last item its switch
\* examined is a content byte (every other content byte is appended)
GuardFired(c) == c.at <= Len(stream) /\ IsContent(stream[c.at])

----------------------------------------------------------------------------
(* C1 *)

\* the indices of the '\r' of the stream
FrameEnds(s) == { i \in 1..Len(s) : s[i] = CR }

\* the index of the '\r' that ends the k-th frame
EndOf(s, k) ==
    CHOOSE e \in FrameEnds(s) :
        Cardinality({ x \in FrameEnds(s) : x < e }) = k - 1

FrameStart(s, k) == IF k = 1 THEN 1 ELSE EndOf(s, k - 1) + 2

Content(s, k) == SubSeq(s, FrameStart(s, k), EndOf(s, k) - 1)

NFrames(s) == Cardinality(FrameEnds(s))

\* s is a concatenation of frames, each a content of 1..MaxText bytes
\* without '\r', '\n' or NUL, followed by "\r\n"
WellFormed(s) ==
    /\ \A i \in 1..Len(s) :
          /\ s[i] >= 0
          /\ s[i] # NUL
          /\ s[i] = CR => i < Len(s) /\ s[i + 1] = LF
          /\ s[i] = LF => i > 1 /\ s[i - 1] = CR
    /\ Len(s) > 0 => s[Len(s)] = LF
    /\ \A k \in 1..NFrames(s) :
          /\ Len(Content(s, k)) >= 1
          /\ Len(Content(s, k)) <= MaxText

\* C1: on a stream that is a concatenation of well-formed frames, the k-th
\* call returns the content of the k-th frame without error, and the call
\* after the last frame returns io.EOF.
C1_FramesInOrder ==
    WellFormed(stream) =>
        \A k \in Calls :
            IF k <= NFrames(stream)
            THEN calls[k].err = nil /\ calls[k].data = Content(stream, k)
            ELSE /\ k = NFrames(stream) + 1
                 /\ calls[k].err = EOF
                 /\ calls[k].data = <<>>

\* two frames of different contents, one of them of several bytes, read to
\* the end of the stream
C1_Witness ==
    /\ WellFormed(stream)
    /\ NFrames(stream) = 2
    /\ Len(calls) = 3
    /\ Content(stream, 1) # Content(stream, 2)
    /\ Len(calls[1].data) + Len(calls[2].data) >= 3

----------------------------------------------------------------------------
(* C2 *)

\* the indices, after the item at which the length guard of c fired, of
\* the '\r' of a "\r\n"
DelimitersAfter(c) ==
    { i \in (c.at + 1)..(Len(stream) - 1) :
        stream[i] = CR /\ stream[i + 1] = LF }

\* C2: when a call returns MsgTooLong and a "\r\n" follows the byte at
\* which the length guard fired, the reader is left right after the first
\* such "\r\n", and that is where the next call starts reading.
C2_Resynchronized ==
    \A k \in Calls :
        LET c == calls[k] IN
        (c.err.kind = "MsgTooLong" /\ DelimitersAfter(c) # {}) =>
            /\ c.pos = Min(DelimitersAfter(c)) + 1
            /\ (k + 1) \in Calls =>
                  calls[k + 1].start = Min(DelimitersAfter(c)) + 1

\* the source does not fail between the byte at which the length guard of
\* c fired and the first "\r\n" after it
NoFailureInJunk(c) ==
    \A i \in (c.at + 1)..Min(DelimitersAfter(c)) : stream[i] >= 0

\* What holds of the resynchronization: C2 for the calls during whose junk
\* the source does not fail.
ResynchronizedUnlessFailure ==
    \A k \in Calls :
        LET c == calls[k] IN
        (/\ c.err.kind = "MsgTooLong"
         /\ DelimitersAfter(c) # {}
         /\ NoFailureInJunk(c)) =>
            /\ c.pos = Min(DelimitersAfter(c)) + 1
            /\ (k + 1) \in Calls =>
                  calls[k + 1].start = Min(DelimitersAfter(c)) + 1

----------------------------------------------------------------------------
(* C3 *)

\* the number of content bytes among the items a..b of the stream
NContent(a, b) == Cardinality({ j \in a..b : IsContent(stream[j]) })

\* the stream holds, from the start of c, MaxText content bytes and "\r\n"
ExactFrameAt(c) ==
    /\ c.start + MaxText + 2 <= Len(stream)
    /\ \A j \in (c.start + 1)..(c.start + MaxText) : IsContent(stream[j])
    /\ stream[c.start + MaxText + 1] = CR
    /\ stream[c.start + MaxText + 2] = LF

\* C3: a frame of exactly MaxText content bytes is returned whole and
\* without error; a call returns MsgTooLong exactly when its switch meets a
\* content byte after it has scanned MaxText content bytes; no text returned
\* without error is longer than MaxText.
C3_LengthGuard ==
    \A k \in Calls :
        LET c == calls[k] IN
        /\ ExactFrameAt(c) =>
              /\ c.err = nil
              /\ c.data = SubSeq(stream, c.start + 1, c.start + MaxText)
        /\ (c.err.kind = "MsgTooLong") <=>
              (GuardFired(c) /\ NContent(c.start + 1, c.at - 1) = MaxText)
        /\ c.err = nil => Len(c.data) <= MaxText

\* a frame of MaxText bytes was returned whole
C3_Witness ==
    \E k \in Calls :
        /\ ExactFrameAt(calls[k])
        /\ calls[k].err = nil
        /\ Len(calls[k].data) = MaxText

\* a call returned MsgTooLong at the byte after MaxText content bytes
C3_ReachTooLong ==
    \E k \in Calls :
        /\ calls[k].err.kind = "MsgTooLong"
        /\ NContent(calls[k].start + 1, calls[k].at - 1) = MaxText

----------------------------------------------------------------------------
(* C4 *)

\* the call has accumulated nothing when its switch examines item i
NothingBefore(c, i) ==
    \A j \in (c.start + 1)..(i - 1) : stream[j] \in {CR, LF}

\* C4: a "\r\n" met with nothing accumulated does not end the call, whose
\* switch goes on to examine what follows it; no call returns an empty text
\* without error.
C4_EmptyFrameSkipped ==
    \A k \in Calls :
        LET c == calls[k] IN
        /\ \A i \in Scanned(c) :
              (/\ i < Len(stream)
               /\ stream[i] = CR
               /\ stream[i + 1] = LF
               /\ NothingBefore(c, i)) => c.at > i + 1
        /\ c.err = nil => c.data # <<>>

\* a call skipped an empty frame and returned the message after it
C4_Witness ==
    \E k \in Calls :
        LET c == calls[k] IN
        /\ c.start + 2 <= Len(stream)
        /\ stream[c.start + 1] = CR
        /\ stream[c.start + 2] = LF
        /\ c.err = nil
        /\ c.data # <<>>

----------------------------------------------------------------------------
(* C5 *)

\* the last ReadByte of the call met the end of the source
SourceEnded(c) == c.rerr = EOF

\* the last ReadByte of the call is the one that follows a '\r': the last
\* item the switch examined is a '\r'
AfterCR(c) == c.at <= Len(stream) /\ stream[c.at] = CR

\* C5 as stated: whenever the source ends while nothing is accumulated, the
\* call returns io.EOF.
C5_CleanEOFWhenEmpty ==
    \A k \in Calls :
        LET c == calls[k] IN
        (SourceEnded(c) /\ Len(c.msg) = 0) => c.err = EOF

\* C5 as amended: whenever the source ends at the ReadByte of the switch
\* (not at the one that follows a '\r') while nothing is accumulated, the
\* call returns io.EOF with an empty text; when it ends right after a '\r'
\* the call returns the "unexpected end of file" error instead; the first
\* call on an empty stream returns io.EOF.
C5_CleanEOFWhenEmptyAmended ==
    /\ \A k \in Calls :
          LET c == calls[k] IN
          (SourceEnded(c) /\ Len(c.msg) = 0) =>
              IF AfterCR(c)
              THEN c.err = unexpected("end of file") /\ c.data = <<>>
              ELSE c.err = EOF /\ c.data = <<>>
    /\ (stream = <<>> /\ calls # <<>>) => calls[1].err = EOF

\* a call that consumed items but accumulated nothing met the end of the
\* source at its switch and returned io.EOF
C5_Witness ==
    \E k \in Calls :
        LET c == calls[k] IN
        /\ SourceEnded(c)
        /\ Len(c.msg) = 0
        /\ ~AfterCR(c)
        /\ c.pos > c.start
        /\ c.err = EOF

----------------------------------------------------------------------------
(* C6 *)

\* C6 as stated: whenever the source ends while at least one byte is
\* accumulated, the call returns the "unexpected end of file" error with an
\* empty text; io.EOF is returned only when nothing is accumulated.
C6_UnexpectedEOFWhenPartial ==
    \A k \in Calls :
        LET c == calls[k] IN
        /\ (SourceEnded(c) /\ Len(c.msg) > 0) =>
              c.err = unexpected("end of file") /\ c.data = <<>>
        /\ c.err = EOF => Len(c.msg) = 0

\* C6 as amended: the same, unless the length guard has fired, in which
\* case the source ends during the resynchronization and the call returns
\* MsgTooLong (with an empty text).
C6_UnexpectedEOFWhenPartialAmended ==
    \A k \in Calls :
        LET c == calls[k] IN
        /\ (SourceEnded(c) /\ Len(c.msg) > 0) =>
              /\ c.data = <<>>
              /\ IF GuardFired(c)
                 THEN c.err.kind = "MsgTooLong"
                 ELSE c.err = unexpected("end of file")
        /\ c.err = EOF => Len(c.msg) = 0

\* the source ended at the switch of a call that had accumulated bytes
C6_Witness ==
    \E k \in Calls :
        LET c == calls[k] IN
        /\ SourceEnded(c)
        /\ Len(c.msg) > 0
        /\ ~GuardFired(c)
        /\ ~AfterCR(c)
        /\ c.err = unexpected("end of file")

----------------------------------------------------------------------------
(* C7 *)

\* the item after the i-th is a byte other than '\n', or the stream ends
\* at the i-th item
NoNewlineAfter(i) ==
    i = Len(stream) \/ (stream[i + 1] >= 0 /\ stream[i + 1] # LF)

\* C7: whenever the switch of a call reads a '\r' that is followed by a
\* byte other than '\n' or by the end of the source, the call returns there
\* with an empty text and the "unexpected carrage return" error, or the
\* "unexpected end of file" error at the end of the source; the accumulated
\* bytes and the returned text never hold a '\r'.
C7_LoneCRIsError ==
    \A k \in Calls :
        LET c == calls[k] IN
        /\ \A i \in Scanned(c) :
              (stream[i] = CR /\ NoNewlineAfter(i)) =>
                  /\ c.at = i
                  /\ c.err = IF i = Len(stream)
                             THEN unexpected("end of file")
                             ELSE unexpected("carrage return")
                  /\ c.data = <<>>
        /\ CR \notin Range(c.msg)
        /\ CR \notin Range(c.data)

\* a call that had accumulated bytes read a '\r' followed by another byte
C7_Witness ==
    \E k \in Calls :
        LET c == calls[k] IN
        /\ AfterCR(c)
        /\ c.at < Len(stream)
        /\ NoNewlineAfter(c.at)
        /\ Len(c.msg) > 0
        /\ c.err = unexpected("carrage return")

----------------------------------------------------------------------------
(* C8 *)

\* C8: whenever the switch of a call reads a NUL, the call returns the
\* "unexpected null" error with an empty text and the reader is left right
\* after the NUL, whatever the call has accumulated.
C8_NulIsError ==
    \A k \in Calls :
        LET c == calls[k] IN
        \A i \in Scanned(c) :
            stream[i] = NUL =>
                /\ c.err = unexpected("null")
                /\ c.data = <<>>
                /\ c.at = i
                /\ c.pos = i

\* a NUL read when MaxText bytes are accumulated
C8_Witness ==
    \E k \in Calls :
        LET c == calls[k] IN
        /\ c.at <= Len(stream)
        /\ stream[c.at] = NUL
        /\ Len(c.msg) = MaxText
        /\ c.err = unexpected("null")

----------------------------------------------------------------------------
(* C9 *)

\* the i-th item is a '\n' read by the switch of c, not the '\n' of a
\* "\r\n"
BareLF(c, i) ==
    /\ stream[i] = LF
    /\ i = c.start + 1 \/ stream[i - 1] # CR
    /\ i \in Scanned(c)

\* C9: a '\n' read by the switch of a call changes nothing: the call
\* returns the text and the error, with the same bytes accumulated, that it
\* returns on the stream without that '\n'.
C9_BareLFStripped ==
    \A k \in Calls :
        LET c == calls[k] IN
        \A i \in Scanned(c) :
            BareLF(c, i) =>
                LET r == readMsgData(RemoveAt(stream, i), c.start) IN
                /\ r.data = c.data
                /\ r.err = c.err
                /\ r.msg = c.msg
                /\ r.pos = c.pos - 1
                /\ LF \notin Range(c.msg)

\* a '\n' read when MaxText bytes are accumulated, in a call that then
\* returns them without error
C9_Witness ==
    \E k \in Calls :
        LET c == calls[k] IN
        /\ c.err = nil
        /\ Len(c.data) = MaxText
        /\ \E i \in Scanned(c) :
              BareLF(c, i) /\ NContent(c.start + 1, i - 1) = MaxText

----------------------------------------------------------------------------
(* C10 *)

\* C10: every failure of the source during a call is the error the call
\* returns.
C10_SourceErrorsPropagate ==
    \A k \in Calls :
        LET c == calls[k] IN
        \A i \in (c.start + 1)..c.pos :
            stream[i] < 0 => c.err = SourceErr(stream[i])

\* What holds of the failures of the source: those met by the ReadByte of
\* the switch and by the ReadByte that follows a '\r' are returned.
SourceErrorsPropagateOutsideJunk ==
    \A k \in Calls :
        LET c == calls[k] IN
        \A i \in (c.start + 1)..c.pos :
            (stream[i] < 0 /\ ~GuardFired(c)) => c.err = SourceErr(stream[i])

----------------------------------------------------------------------------
(* C11 *)

\* C11: the text carried by MsgTooLong is the text collected when the
\* length guard fires, the first MaxText content bytes of the message.
C11_TruncatedTextIsCollected ==
    \A k \in Calls :
        LET c == calls[k] IN
        c.err.kind = "MsgTooLong" =>
            /\ c.err.Message = c.msg
            /\ Len(c.err.Message) = MaxText

\* What holds of the carried text: it is the text collected without its
\* last byte, MaxText - 1 bytes.
TruncatedTextDropsLastByte ==
    \A k \in Calls :
        LET c == calls[k] IN
        c.err.kind = "MsgTooLong" =>
            /\ Len(c.msg) = MaxText
            /\ c.err.Message = SubSeq(c.msg, 1, MaxText - 1)

----------------------------------------------------------------------------
(* C12 *)

\* junk returned because it met the delimiter
JunkFoundDelimiter(c) == c.rerr = nil

\* The bytes of the oversized message that are not in the carried text:
\* the collected bytes left out of it, the byte at which the length guard
\* fired and the bytes junk read, without the two bytes of the delimiter
\* when junk met it.
Discarded(c) ==
    (Len(c.msg) - Len(c.err.Message)) + 1
    + Cardinality({ i \in (c.at + 1)..c.pos : stream[i] >= 0 })
    - (IF JunkFoundDelimiter(c) THEN Len(delimiter) ELSE 0)

\* C12: NTrunc is the number of bytes of the oversized message that are not
\* in the carried text, whether junk met the delimiter or the end of the
\* source.
C12_NTruncCountsDiscarded ==
    \A k \in Calls :
        LET c == calls[k] IN
        c.err.kind = "MsgTooLong" => c.err.NTrunc = Discarded(c)

\* What holds of NTrunc: it is that number when junk met the delimiter, and
\* one less when junk met the end of the source or a failure of the source.
NTruncWhenDelimiterFound ==
    \A k \in Calls :
        LET c == calls[k] IN
        c.err.kind = "MsgTooLong" =>
            c.err.NTrunc =
                IF JunkFoundDelimiter(c) THEN Discarded(c)
                ELSE Discarded(c) - 1

----------------------------------------------------------------------------
(* Vocabulary of the claims about the codec *)

\* Parse has returned message for text
Parsed == phase \in {"parsed", "echoed"}

\* RawString has returned wire for message
Serialized == phase \in {"echoed", "wired", "reparsed"}

\* out is s without the newlines at its end
WithoutTrailingNewlines(out, s) ==
    \E k \in 0..Len(s) :
        /\ out = SubSeq(s, 1, k)
        /\ \A i \in (k + 1)..Len(s) : s[i] = LF
        /\ k > 0 => s[k] # LF

----------------------------------------------------------------------------
(* C13 *)

----------------------------------------------------------------------------
(* C14 *)

\* s holds none of the bytes of the string markers
FreeOf(s, markers) == Range(s) \cap Range(markers) = {}

\* a non-empty token without a space that would not be read as a marker
\* where it stands
Token(s) == s # <<>> /\ FreeOf(s, Space) /\ s[1] # Colon[1]

\* the valid field combinations
ValidFields(m) ==
    /\ m.Raw = <<>>
    /\ (m.User = <<>>) <=> (m.Host = <<>>)
    /\ m.User # <<>> => m.Origin # <<>>
    /\ FreeOf(m.Origin, Space \o Bang)
    /\ FreeOf(m.User, Space \o At)
    /\ FreeOf(m.Host, Space)
    /\ Token(m.Command)
    /\ \A i \in 1..(Len(m.Arguments) - 1) : Token(m.Arguments[i])
    /\ Len(candidate(m)) <= MaxText

SameFields(m1, m2) ==
    /\ m1.Origin = m2.Origin
    /\ m1.User = m2.User
    /\ m1.Host = m2.Host
    /\ m1.Command = m2.Command
    /\ m1.Arguments = m2.Arguments

\* the last byte of the text built from the fields of m is a newline
EndsInNewline(m) ==
    LET last == IF m.Arguments = <<>> THEN m.Command
                ELSE m.Arguments[Len(m.Arguments)]
    IN last # <<>> /\ last[Len(last)] = LF

\* C14: for every Message with an empty Raw and a valid combination of
\* fields, RawString succeeds and Parse of the string it returns has the
\* same origin, user, host, command and arguments, in the same order.
C14_FieldsRoundTrip ==
    /\ (phase = "wired" /\ ValidFields(message)) =>
           wire.err = nil /\ wire.s # <<>>
    /\ (phase = "reparsed" /\ ValidFields(message)) =>
           SameFields(reparsed, message)

\* C14 amended: the same, for the Messages whose text does not end in a
\* newline.
C14_FieldsRoundTripAmended ==
    /\ (phase = "wired" /\ ValidFields(message)) =>
           wire.err = nil /\ wire.s # <<>>
    /\ (phase = "reparsed" /\ ValidFields(message)
           /\ ~EndsInNewline(message)) =>
           SameFields(reparsed, message)

\* a Message with a full prefix, a non-final argument and a final argument
\* holding a space has made the round trip
C14_Witness ==
    /\ phase = "reparsed"
    /\ ValidFields(message)
    /\ message.User # <<>>
    /\ Len(message.Arguments) = 2
    /\ ~FreeOf(message.Arguments[2], Space)
    /\ SameFields(reparsed, message)

----------------------------------------------------------------------------
(* C15 *)

\* the index of the first byte b of s, Len(s) + 1 when s holds no b
First(s, b) == Min({ i \in 1..Len(s) : s[i] = b } \cup { Len(s) + 1 })

\* s up to its first byte b, the whole of s when it holds no b
UpTo(s, b) == SubSeq(s, 1, First(s, b) - 1)

\* s after its first byte b, empty when it holds no b
Beyond(s, b) == SubSeq(s, First(s, b) + 1, Len(s))

\* s from its first byte that is not a space
FromToken(s) ==
    SubSeq(s, Min({ i \in 1..Len(s) : s[i] # Space[1] } \cup { Len(s) + 1 }),
           Len(s))

\* the prefix body of a text that begins with ':'
PrefixBody(s) == UpTo(Tail(s), Space[1])

\* the text from the command on
FromCommand(s) ==
    IF s[1] = Colon[1] THEN FromToken(Beyond(Tail(s), Space[1])) ELSE s

\* C15: Parse of a text that begins with ':' takes the bytes after the ':'
\* up to the first space as the prefix body; origin is the body up to its
\* first '!', user what lies between that '!' and the first '@' after it
\* (all that follows the '!' when no '@' does), host the rest; with no '!'
\* origin is the whole body and user and host are empty.  A text that does
\* not begin with ':' gives empty origin, user and host.  The command is the
\* next space-delimited token, verbatim.
C15_PrefixAndCommand ==
    Parsed =>
        /\ IF text[1] = Colon[1]
           THEN LET body == PrefixBody(text)
                    rest == Beyond(body, Bang[1])
                IN /\ message.Origin = UpTo(body, Bang[1])
                   /\ message.User = UpTo(rest, At[1])
                   /\ message.Host = Beyond(rest, At[1])
           ELSE /\ message.Origin = <<>>
                /\ message.User = <<>>
                /\ message.Host = <<>>
        /\ message.Command = UpTo(FromCommand(text), Space[1])

\* a text with origin, user, host and a command has been parsed
C15_Witness ==
    /\ Parsed
    /\ text[1] = Colon[1]
    /\ message.Origin # <<>>
    /\ message.User # <<>>
    /\ message.Host # <<>>
    /\ message.Command # <<>>
    /\ ~FreeOf(message.Host, At \o Bang)

----------------------------------------------------------------------------
(* C16 *)

\* the arguments of m that the trailing marker did not introduce, m being
\* the result of Parse for the text s
TokenArguments(m, s) ==
    IF ParseTrailing(s)
    THEN SubSeq(m.Arguments, 1, Len(m.Arguments) - 1)
    ELSE m.Arguments

\* s without its last byte
Front(s) == SubSeq(s, 1, Len(s) - 1)

\* C16: in every result of Parse each argument that the trailing marker did
\* not introduce is non-empty and holds no space; a space at the end of the
\* text adds no argument.
C16_TokensNonEmptySpaceless ==
    Parsed =>
        /\ \A a \in Range(TokenArguments(message, text)) :
               a # <<>> /\ FreeOf(a, Space)
        /\ (Len(text) > 1 /\ text[Len(text)] = Space[1]
               /\ ~ParseTrailing(text)) =>
               message.Arguments = Parse(Front(text)).Arguments

\* a text with two spaces between the command and an argument and a space
\* at its end has been parsed
C16_Witness ==
    /\ Parsed
    /\ ~ParseTrailing(text)
    /\ text[1] \notin { Colon[1], Space[1] }
    /\ Index(text, Space \o Space) > 0
    /\ text[Len(text)] = Space[1]
    /\ Len(message.Arguments) = 1

----------------------------------------------------------------------------
(* C17 *)

\* the text after the command and the spaces that follow it
ArgumentText(s) == FromToken(Beyond(FromCommand(s), Space[1]))

\* the indices of a at which a token starts
TokenStarts(a) ==
    { i \in 1..Len(a) : a[i] # Space[1] /\ (i = 1 \/ a[i - 1] = Space[1]) }

\* the indices of a at which a token starts with ':'
TrailingMarkers(a) == { i \in TokenStarts(a) : a[i] = Colon[1] }

\* C17: when the text left to the argument extraction starts with ':', all
\* the text after that ':' is the last argument, verbatim, and the
\* arguments before it are the tokens before it.
C17_TrailingVerbatim ==
    Parsed =>
        LET a == ArgumentText(text)
            M == TrailingMarkers(a)
        IN IF M = {}
           THEN ~ParseTrailing(text)
           ELSE LET i == Min(M)
                    args == message.Arguments
                IN /\ ParseTrailing(text)
                   /\ Len(args) =
                          Cardinality({ j \in TokenStarts(a) : j < i }) + 1
                   /\ args[Len(args)] = SubSeq(a, i + 1, Len(a))

\* a text whose trailing argument starts with ':' and ends with a space has
\* been parsed
C17_Witness ==
    /\ Parsed
    /\ ParseTrailing(text)
    /\ LET last == message.Arguments[Len(message.Arguments)] IN
       /\ Len(last) >= 2
       /\ last[1] = Colon[1]
       /\ last[Len(last)] = Space[1]

----------------------------------------------------------------------------
(* C18 *)

\* the arguments as they stand in the text: the last one after a ':'
Marked(args) ==
    [i \in 1..Len(args) |->
        IF i = Len(args) THEN Colon \o args[i] ELSE args[i]]

\* the text of the fields of m, as the claim describes it
FieldsText(m) ==
    (IF m.Origin = <<>> THEN <<>>
     ELSE Colon \o m.Origin
          \o (IF m.User = <<>> THEN <<>>
              ELSE Bang \o m.User \o At \o m.Host)
          \o Space)
    \o m.Command
    \o (IF m.Arguments = <<>> THEN <<>>
        ELSE Space \o Join(Marked(m.Arguments), Space))

\* C18: for a Message with an empty Raw the text RawString builds is, when
\* the origin is non-empty, ':' and the origin, then '!' user '@' host when
\* the user is non-empty, then a space; then the command; then each
\* argument after one space, the last one also after a ':'.  RawString
\* returns that text without its trailing newlines, or carries it in the
\* error when it is too long.
C18_BuiltFromFields ==
    (Serialized /\ message.Raw = <<>>) =>
        IF wire.err = nil
        THEN WithoutTrailingNewlines(wire.s, FieldsText(message))
        ELSE wire.err.Message = FieldsText(message)

\* a Message with origin, user and a single argument without a space has
\* been serialized
C18_Witness ==
    /\ Serialized
    /\ message.Raw = <<>>
    /\ wire.err = nil
    /\ message.Origin # <<>>
    /\ message.User # <<>>
    /\ Len(message.Arguments) = 1
    /\ message.Arguments[1] # <<>>
    /\ FreeOf(message.Arguments[1], Space \o Newline)

----------------------------------------------------------------------------
(* C19 *)

\* the candidate text of m: Raw, or the text of the fields
CandidateText(m) == IF m.Raw # <<>> THEN m.Raw ELSE FieldsText(m)

\* C19: whenever the candidate text is longer than MaxBytes-2 bytes
\* RawString returns an empty string and the MsgTooLong error carrying the
\* whole candidate and, as NTrunc, its length minus (MaxBytes-2); every
\* string RawString returns without an error is at most MaxBytes-2 bytes.
C19_NeverTruncates ==
    Serialized =>
        LET c == CandidateText(message) IN
        /\ Len(c) > MaxText =>
               /\ wire.s = <<>>
               /\ wire.err = MsgTooLong(c, Len(c) - MaxText)
        /\ wire.err = nil => Len(wire.s) <= MaxText

\* a Message whose candidate is one byte too long has been serialized
C19_Witness ==
    /\ Serialized
    /\ wire.err.kind = "MsgTooLong"
    /\ wire.err.NTrunc = 1
    /\ Len(wire.err.Message) = MaxText + 1

----------------------------------------------------------------------------
(* C20 *)

\* C20: in every Message Parse returns, user and host are both non-empty or
\* both empty.
C20_UserAndHostTogether ==
    Parsed => ((message.User = <<>>) <=> (message.Host = <<>>))

\* What holds of user and host: they are set together exactly when, in the
\* part of the prefix body after its first '!', the first '@' has bytes on
\* both sides, or that part is empty or the lone "@".
UserAndHostTogetherWhenWellFormed ==
    (Parsed /\ text[1] = Colon[1]) =>
        LET rest == Beyond(PrefixBody(text), Bang[1])
            at == First(rest, At[1])
        IN ((message.User = <<>>) <=> (message.Host = <<>>))
           <=> (rest = <<>> \/ rest = At \/ (1 < at /\ at < Len(rest)))

----------------------------------------------------------------------------
(* C21 *)

\* C21: in every Message Parse returns, if user or host is non-empty then
\* origin is non-empty.
C21_UserOrHostNeedsOrigin ==
    Parsed =>
        ((message.User # <<>> \/ message.Host # <<>>) =>
             message.Origin # <<>>)

\* What holds of them: Parse returns a user or a host without an origin
\* exactly when the prefix body starts with '!' and more than a lone '@'
\* follows that '!'.
UserOrHostWithoutOriginWhenBangFirst ==
    (Parsed /\ text[1] = Colon[1]) =>
        LET body == PrefixBody(text) IN
        (message.Origin = <<>>
             /\ (message.User # <<>> \/ message.Host # <<>>))
        <=> (body # <<>> /\ body[1] = Bang[1]
                /\ Tail(body) \notin { <<>>, At })

----------------------------------------------------------------------------
(* C22 *)

\* the length of s without the newlines at its end
StrippedLen(s) == Max({ i \in 1..Len(s) : s[i] # LF } \cup { 0 })

\* s does not end with a newline
NoNewlineAtEnd(s) == s = <<>> \/ s[Len(s)] # LF

\* C22: RawString strips the trailing newlines of the candidate before the
\* length guard: it succeeds exactly when the candidate without its
\* trailing newlines is at most MaxBytes-2 bytes long, and the string it
\* returns never ends with a newline.
C22_StripBeforeGuard ==
    Serialized =>
        /\ wire.err = nil <=>
               StrippedLen(CandidateText(message)) <= MaxText
        /\ wire.err = nil => NoNewlineAtEnd(wire.s)

\* What holds: the guard is applied to the candidate with its trailing
\* newlines, and the string returned never ends with a newline.
GuardBeforeStrip ==
    Serialized =>
        /\ wire.err = nil <=> Len(CandidateText(message)) <= MaxText
        /\ wire.err = nil => NoNewlineAtEnd(wire.s)

----------------------------------------------------------------------------
(* C23 *)

\* C23: when readMsgData reports MsgTooLong, read returns that error and
\* the Message parsed from the text the error carries; for every other
\* error of readMsgData it returns the zero Message and that error.
C23_TooLongStillParsed ==
    \A k \in Calls :
        LET c == calls[k] IN
        /\ c.err.kind = "MsgTooLong" =>
               /\ c.ret = c.err
               /\ c.err.Message # <<>>
               /\ c.m = Parse(c.err.Message)
        /\ (c.err # nil /\ c.err.kind # "MsgTooLong") =>
               /\ c.ret = c.err
               /\ c.m = ZeroMessage

\* read has returned MsgTooLong with a Message that has an origin, and
\* then another error with the zero Message
C23_Witness ==
    \E k \in Calls :
        /\ calls[k].ret.kind = "MsgTooLong"
        /\ calls[k].m.Origin # <<>>
        /\ calls[k].m.Raw = calls[k].ret.Message
        /\ \E j \in Calls :
               /\ j > k
               /\ calls[j].ret.kind = "unexpected"
               /\ calls[j].m = ZeroMessage

----------------------------------------------------------------------------
(* C24 *)

\* the indices of the items a call consumed
Consumed(c) == (c.start + 1)..c.pos

\* the indices of the '\r' and '\n' a call consumed
Stripped(c) == { i \in Consumed(c) : stream[i] \in { CR, LF } }

\* C24: every text readMsgData returns without an error holds no '\r', no
\* '\n' and no NUL, and is the sequence, in the order of the stream, of the
\* other bytes the call read, all of them after the last boundary before
\* the "\r\n" that ended the call; the call consumes the source up to that
\* '\n' and no further.
C24_ReturnedTextIsContent ==
    \A k \in Calls :
        LET c == calls[k] IN
        c.err = nil =>
            LET S == Stripped(c) IN
            /\ \A n \in 1..Len(c.data) : IsContent(c.data[n])
            /\ c.pos >= c.start + 2
            /\ stream[c.pos - 1] = CR
            /\ stream[c.pos] = LF
            /\ Len(c.data) = (c.pos - c.start) - Cardinality(S)
            /\ \A i \in Consumed(c) \ S :
                   c.data[(i - c.start) - Cardinality({ j \in S : j < i })]
                       = stream[i]
            /\ \A i \in S :
                   (stream[i] = CR /\ i < c.pos - 1) =>
                       \A j \in (c.start + 1)..(i - 1) : j \in S
            /\ k < Len(calls) => calls[k + 1].start = c.pos

\* a call has returned two different bytes between which it read a '\n'
C24_Witness ==
    \E k \in Calls :
        LET c == calls[k] IN
        /\ c.err = nil
        /\ Len(c.data) = 2
        /\ c.data[1] # c.data[2]
        /\ \E i \in Stripped(c) :
               stream[i] = LF /\ i > c.start + 1 /\ stream[i - 1] # CR

----------------------------------------------------------------------------
(* C25 *)

\* C25: read never calls Parse with an empty text: the text it passes is
\* the text of a call of readMsgData that returned no error, which is not
\* empty, or the text the MsgTooLong error carries, which has at least one
\* byte; so Parse does not panic.
C25_ParseNeverGetsEmptyText ==
    \A k \in Calls :
        LET c == calls[k] IN
        /\ c.err = nil => c.data # <<>>
        /\ c.err.kind = "MsgTooLong" => Len(c.err.Message) >= 1
        /\ c.parse.called =>
               /\ c.parse.data # <<>>
               /\ ~c.parse.panic
               /\ \/ c.err = nil /\ c.parse.data = c.data
                  \/ c.err.kind = "MsgTooLong"
                         /\ c.parse.data = c.err.Message

\* read has parsed a one-byte message that came after an empty frame
C25_Witness ==
    \E k \in Calls :
        LET c == calls[k] IN
        /\ c.err = nil
        /\ c.parse.called
        /\ Len(c.parse.data) = 1
        /\ stream[c.start + 1] = CR

====
